---- MODULE Spec2Model ----
(***************************************************************************)
(* State-machine model of raster.py, the FV3 cubed-sphere plotting script. *)
(* One run of the script is one behaviour: the parsed arguments are fixed  *)
(* by Init, the contents of the files are chosen when the script opens     *)
(* them, and every section of the script is one action.                    *)
(*                                                                         *)
(* Numbers.  Field values are integers.  The script's averaged `value` is  *)
(* the rational  num / average^2 ; the model keeps the numerator `num` and *)
(* compares against quantities scaled by average^2 (normavgDen), so every  *)
(* comparison of the script is decided exactly.                            *)
(***************************************************************************)
EXTENDS Integers, Sequences, FiniteSets

\* ------------------------------------------------------------------ bounds
MaxN == 3            \* largest tile edge length of an input file
MaxAverage == 2      \* largest --average
MaxThreshold == 2    \* largest --threshold

\* ------------------------------------------------------- program constants
ntile == 6           \* number of tiles
Inf == 1000000       \* stands for np.inf: above every finite value of the model

Tiles == 0..(ntile - 1)

\* ------------------------------------------------------------ input files
\* A data file of edge length n is a palette written row-major into every
\* tile, tile t starting off*t places into the palette.
Sources ==
  { [pal |-> <<1, 2, 3, 4>>, off |-> 0],
    [pal |-> <<1, 2, 3, 5>>, off |-> 1],
    [pal |-> <<-3, 5, -1>>, off |-> 0],
    [pal |-> <<0, -2, 1, 3, -4>>, off |-> 1] }

BaseSources ==
  { [pal |-> <<1, 0, 2>>, off |-> 1],
    [pal |-> <<2, -1>>, off |-> 0] }

Cells(ny_, nx_) == Tiles \X (0..(ny_ - 1)) \X (0..(nx_ - 1))

FileData(s, n) ==
  [c \in Cells(n, n) |->
     s.pal[((s.off * c[1] + c[2] * n + c[3]) % Len(s.pal)) + 1]]

NoField == [c \in {} |-> 0]

VARIABLES
  geos, gfs,            \* --geos, --gfs
  filepath,             \* extension of --filepath: "nc" or "nc4"
  basefilepath,         \* extension of --basefilepath, "none" when not given
  average, threshold, centered, cross,
  pc,                   \* the section of the script about to run
  error,                \* "none", or what ended the run
  primary, primaryN,    \* contents and edge length of the data file(s)
  baseline, baselineN,  \* contents and edge length of the base file(s)
  fld, ny, nx,          \* the assembled field and its shape
  itile, iy, ix,        \* loop indices
  vmin, vmax,
  fld_cross,
  value,                \* numerator of the last block value
  values,               \* every block value computed so far
  patches,              \* polygons added to the axes
  saved                 \* the output image has been written

vars == << geos, gfs, filepath, basefilepath, average, threshold, centered,
           cross, pc, error, primary, primaryN, baseline, baselineN, fld, ny,
           nx, itile, iy, ix, vmin, vmax, fld_cross, value, values, patches,
           saved >>

args == << geos, gfs, filepath, basefilepath, average, threshold, centered,
           cross >>
inputs == << primary, primaryN, baseline, baselineN >>
field == << fld, ny, nx >>
range == << vmin, vmax >>
loop == << itile, iy, ix >>
output == << fld_cross, value, values, patches, saved >>

\* ------------------------------------------------------------------ Init
Init ==
  /\ geos \in BOOLEAN
  /\ gfs \in BOOLEAN
  /\ filepath \in {"nc", "nc4"}
  /\ basefilepath \in {"none", "nc", "nc4"}
  /\ average \in 1..MaxAverage
  /\ threshold \in 0..MaxThreshold
  /\ centered \in BOOLEAN
  /\ cross \in BOOLEAN
  /\ pc = "check_args"
  /\ error = "none"
  /\ primary = NoField /\ primaryN = 0
  /\ baseline = NoField /\ baselineN = 0
  /\ fld = NoField /\ ny = 0 /\ nx = 0
  /\ itile = 0 /\ iy = 0 /\ ix = 0
  /\ vmin = 0 /\ vmax = 0
  /\ fld_cross = NoField
  /\ value = 0
  /\ values = << >>
  /\ patches = << >>
  /\ saved = FALSE

\* Variant of Abort: the message is printed but the script does not stop
\* and goes on to write the image.
AbortLate(what) ==
  /\ error' = what
  /\ pc' = "save"

\* An uncaught exception or sys.exit(1): the interpreter stops.
Abort(what) ==
  /\ error' = what
  /\ pc' = "aborted"

\* ------------------------------------------------------------- arguments
CheckArgs ==
  /\ pc = "check_args"
  /\ IF ~(geos \/ gfs)
       THEN Abort("usage")
       ELSE /\ pc' = IF geos THEN "geos" ELSE "gfs"
            /\ error' = error
  /\ UNCHANGED << args, inputs, field, range, loop, output >>

\* --------------------------------------------------------- numpy helpers
\* Edge length of a (ntile, n, n) array.
ShapeOf(f) == CHOOSE n \in 1..MaxN : DOMAIN f = Cells(n, n)

\* numpy broadcasting of two (ntile, n, n) shapes: equal, or one of them 1.
Broadcastable(na, nb) == na = nb \/ na = 1 \/ nb = 1

Larger(a, b) == IF a >= b THEN a ELSE b

\* Variant of BroadcastCell: every tile is paired with tile 0 of the other
\* array.
BroadcastCellTile0(c, k) ==
  << 0, IF k = 1 THEN 0 ELSE c[2], IF k = 1 THEN 0 ELSE c[3] >>

\* The cell of an array of edge length k that broadcasting reads for cell c.
BroadcastCell(c, k) ==
  << c[1], IF k = 1 THEN 0 ELSE c[2], IF k = 1 THEN 0 ELSE c[3] >>

\* a - b, elementwise with broadcasting.
Subtract(a, na, b, nb) ==
  [c \in Cells(Larger(na, nb), Larger(na, nb)) |->
     a[BroadcastCell(c, na)] - b[BroadcastCell(c, nb)]]

\* ---------------------------------------------------------- GEOS assembly
\* One file with a tile axis: check the extension, open, read the field.
ReadGEOS ==
  /\ pc = "geos"
  /\ IF filepath # "nc4"
       THEN /\ Abort("extension")
            /\ UNCHANGED << primary, primaryN, fld >>
       ELSE \E n \in 1..MaxN, s \in Sources :
              /\ primary' = FileData(s, n)
              /\ primaryN' = n
              /\ fld' = FileData(s, n)
              /\ pc' = IF basefilepath = "none" THEN "geos_shape" ELSE "geos_base"
              /\ error' = error
  /\ UNCHANGED << args, baseline, baselineN, ny, nx, range, loop, output >>

\* Base file: check the extension, open, read, subtract.
BaseGEOS ==
  /\ pc = "geos_base"
  /\ IF basefilepath # "nc4"
       THEN /\ Abort("extension")
            /\ UNCHANGED << baseline, baselineN, fld >>
       ELSE \E n \in 1..MaxN, s \in BaseSources :
              /\ baseline' = FileData(s, n)
              /\ baselineN' = n
              /\ IF Broadcastable(primaryN, n)
                   THEN /\ fld' = Subtract(fld, primaryN, FileData(s, n), n)
                        /\ pc' = "geos_shape"
                        /\ error' = error
                   ELSE /\ Abort("ValueError")
                        /\ fld' = fld
  /\ UNCHANGED << args, primary, primaryN, ny, nx, range, loop, output >>

ShapeGEOS ==
  /\ pc = "geos_shape"
  /\ ny' = ShapeOf(fld)
  /\ nx' = ShapeOf(fld)
  /\ pc' = "grid"
  /\ UNCHANGED << args, inputs, fld, error, range, loop, output >>

\* ----------------------------------------------------------- GFS assembly
CheckExtGFS ==
  /\ pc = "gfs"
  /\ IF filepath # "nc"
       THEN /\ Abort("extension")
            /\ UNCHANGED << primary, primaryN >>
       ELSE \E n \in 1..MaxN, s \in Sources :
              /\ primary' = FileData(s, n)
              /\ primaryN' = n
              /\ pc' = "gfs_read"
              /\ error' = error
  /\ UNCHANGED << args, baseline, baselineN, field, range, loop, output >>

\* One pass of the loop over the six tile files.
ReadTileGFS ==
  /\ pc = "gfs_read"
  /\ LET shp == IF itile = 0 THEN primaryN ELSE ny
         zeros == [c \in Cells(shp, shp) |-> 0]
         cur == IF itile = 0 THEN zeros ELSE fld
     IN /\ ny' = shp
        /\ nx' = shp
        /\ fld' = [c \in DOMAIN cur |->
                     IF c[1] = itile THEN primary[c] ELSE cur[c]]
  /\ IF itile + 1 < ntile
       THEN /\ itile' = itile + 1
            /\ pc' = pc
       ELSE /\ itile' = itile + 1
            /\ pc' = IF basefilepath = "none" THEN "grid" ELSE "gfs_base"
  /\ UNCHANGED << args, inputs, error, iy, ix, range, output >>

CheckBaseExtGFS ==
  /\ pc = "gfs_base"
  /\ IF basefilepath # "nc"
       THEN /\ Abort("extension")
            /\ UNCHANGED << baseline, baselineN, itile >>
       ELSE \E n \in 1..MaxN, s \in BaseSources :
              /\ baseline' = FileData(s, n)
              /\ baselineN' = n
              /\ itile' = 0
              /\ pc' = "gfs_sub"
              /\ error' = error
  /\ UNCHANGED << args, primary, primaryN, field, iy, ix, range, output >>

\* One pass of the loop over the six base tile files.
SubTileGFS ==
  /\ pc = "gfs_sub"
  /\ IF baselineN = ny \/ baselineN = 1
       THEN /\ fld' = [c \in DOMAIN fld |->
                         IF c[1] = itile
                           THEN fld[c] - baseline[BroadcastCell(c, baselineN)]
                           ELSE fld[c]]
            /\ itile' = itile + 1
            /\ pc' = IF itile + 1 < ntile THEN pc ELSE "grid"
            /\ error' = error
       ELSE /\ Abort("ValueError")
            /\ UNCHANGED << fld, itile >>
  /\ UNCHANGED << args, inputs, ny, nx, iy, ix, range, output >>

\* ------------------------------------------------------------- grid file
\* fv3grid_c<nx>.nc4 is opened and the vertex arrays, of shape
\* (ntile, nx+1, nx+1), are read; a missing file raises.
OpenGrid ==
  /\ pc = "grid"
  /\ \E exists \in BOOLEAN :
       IF exists
         THEN /\ pc' = "range"
              /\ error' = error
         ELSE Abort("IOError")
  /\ UNCHANGED << args, inputs, field, range, loop, output >>

\* ----------------------------------------------------------------- range
\* Sum of f over the cells S, and the cells of a block: the arithmetic the
\* claims (and the averaged-range variant below) are stated with.
RECURSIVE SumOver(_, _)
SumOver(f, S) ==
  IF S = {} THEN 0
  ELSE LET c == CHOOSE d \in S : TRUE IN f[c] + SumOver(f, S \ {c})

\* The average*average cells of the block that starts at (y, x) of tile t.
BlockCells(t, y, x) ==
  { << t, y + a, x + b >> : a \in 0..(average - 1), b \in 0..(average - 1) }

Abs(x) == IF x < 0 THEN -x ELSE x

Smaller(a, b) == IF a <= b THEN a ELSE b

\* The array in C order, as the reductions of numpy walk it.
Ravel(f, ny_, nx_) ==
  [k \in 1..(ntile * ny_ * nx_) |->
     f[<< (k - 1) \div (ny_ * nx_), ((k - 1) \div nx_) % ny_, (k - 1) % nx_ >>]]

\* np.max / np.min of seq[lo..hi], reduced pairwise.
RECURSIVE MaxIn(_, _, _)
MaxIn(seq, lo, hi) ==
  IF lo = hi THEN seq[lo]
  ELSE Larger(MaxIn(seq, lo, (lo + hi) \div 2),
              MaxIn(seq, (lo + hi) \div 2 + 1, hi))

RECURSIVE MinIn(_, _, _)
MinIn(seq, lo, hi) ==
  IF lo = hi THEN seq[lo]
  ELSE Smaller(MinIn(seq, lo, (lo + hi) \div 2),
               MinIn(seq, (lo + hi) \div 2 + 1, hi))

npMax(seq) == MaxIn(seq, 1, Len(seq))

npMin(seq) == MinIn(seq, 1, Len(seq))

\* Variant of npAbs: the absolute value is forgotten.
npAbsNone(seq) == seq

npAbs(seq) == [k \in 1..Len(seq) |-> Abs(seq[k])]

\* Variant of RangeInput: the range is taken of the block-averaged field
\* (full blocks, values rounded down).
RangeInputAveraged ==
  IF average = 1 \/ ny \div average = 0 \/ nx \div average = 0
    THEN Ravel(fld, ny, nx)
    ELSE Ravel([c \in Cells(ny \div average, nx \div average) |->
                  SumOver(fld, BlockCells(c[1], c[2] * average, c[3] * average))
                    \div (average * average)],
               ny \div average, nx \div average)

\* The array the range is taken of.
RangeInput == Ravel(fld, ny, nx)

\* Compute min/max.
ComputeRange ==
  /\ pc = "range"
  /\ IF centered
       THEN /\ vmax' = npMax(npAbs(RangeInput))
            /\ vmin' = -npMax(npAbs(RangeInput))
       ELSE /\ vmin' = npMin(RangeInput)
            /\ vmax' = npMax(RangeInput)
  /\ pc' = "figure"
  /\ UNCHANGED << args, inputs, field, error, loop, output >>

\* Variant of normavgDen: normavg = 1.0/average.
normavgDenLinear == average

\* normavg = 1.0/average**2 : the denominator of every block value.
normavgDen == average * average

\* Averaging norm, figure, colormap and title; then the branch on --cross.
InitFigure ==
  /\ pc = "figure"
  /\ pc' = IF cross THEN "cross" ELSE "polygons"
  /\ itile' = 0
  /\ iy' = 0
  /\ ix' = 0
  /\ UNCHANGED << args, inputs, field, error, range, output >>

\* ----------------------------------------------------------------- cross
\* fld[t,:,:] as a matrix indexed (row, column).
TileOf(f, t, ny_, nx_) ==
  [p \in (0..(ny_ - 1)) \X (0..(nx_ - 1)) |-> f[<< t, p[1], p[2] >>]]

Transpose(m) ==
  [p \in { << q[2], q[1] >> : q \in DOMAIN m } |-> m[<< p[2], p[1] >>]]

\* np.flip(m, axis=1) of a matrix with ncols columns.
Flip1(m, ncols) == [p \in DOMAIN m |-> m[<< p[1], ncols - 1 - p[2] >>]]

\* Variant of Rot90: a clockwise quarter turn.
Rot90Clockwise(m, nrows, ncols) == Flip1(Transpose(m), nrows)

\* np.rot90(m): transpose(flip(m, 1)).
Rot90(m, nrows, ncols) == Transpose(Flip1(m, ncols))

\* Variant of Rot270: a single counter-clockwise quarter turn.
Rot270Counter(m, nrows, ncols) == Transpose(Flip1(m, ncols))

\* np.rot90(m, 3): flip(transpose(m), 1).
Rot270(m, nrows, ncols) == Flip1(Transpose(m), nrows)

\* a[r0:r0+nr, c0:c0+nc] = m
SetBlock(a, r0, nr, c0, nc, m) ==
  [p \in DOMAIN a |->
     IF p[1] \in r0..(r0 + nr - 1) /\ p[2] \in c0..(c0 + nc - 1)
       THEN m[<< p[1] - r0, p[2] - c0 >>]
       ELSE a[p]]

CrossLayout(f, ny_, nx_) ==
  LET c0 == [p \in (0..(3 * nx_ - 1)) \X (0..(4 * ny_ - 1)) |-> Inf]
      c1 == SetBlock(c0, 1 * nx_, nx_, 1 * ny_, ny_, TileOf(f, 0, ny_, nx_))
      c2 == SetBlock(c1, 1 * nx_, nx_, 2 * ny_, ny_, TileOf(f, 1, ny_, nx_))
      c3 == SetBlock(c2, 2 * nx_, nx_, 1 * ny_, ny_,
                     Rot270(TileOf(f, 2, ny_, nx_), ny_, nx_))
      c4 == SetBlock(c3, 1 * nx_, nx_, 3 * ny_, ny_,
                     Rot90(TileOf(f, 3, ny_, nx_), ny_, nx_))
      c5 == SetBlock(c4, 1 * nx_, nx_, 0 * ny_, ny_,
                     Rot90(TileOf(f, 4, ny_, nx_), ny_, nx_))
      c6 == SetBlock(c5, 0 * nx_, nx_, 1 * ny_, ny_, TileOf(f, 5, ny_, nx_))
  IN c6

Cross ==
  /\ pc = "cross"
  /\ fld_cross' = CrossLayout(fld, ny, nx)
  /\ pc' = "save"
  /\ UNCHANGED << args, inputs, field, error, range, loop, value, values,
                  patches, saved >>

\* -------------------------------------------------------------- polygons
\* Variant of Index: an index past the end wraps around instead of raising.
IndexWrap(i, n) == i % n

\* numpy's index check on an axis of length n: i itself, i + n for a
\* negative i down to -n, and -1 (here: IndexError) otherwise.
Index(i, n) ==
  IF 0 <= i /\ i < n THEN i
  ELSE IF -n <= i /\ i < 0 THEN i + n
  ELSE -1

\* fld[t, y+ixa, x+ixa] is read by the block at (y, x).
BlockRaises(y, x) ==
  \E ixa \in 0..(average - 1) :
    Index(y + ixa, ny) = -1 \/ Index(x + ixa, nx) = -1

\* for ixa in range(0, average): value += fld[itile, iy+ixa, ix+ixa]
RECURSIVE InnerLoop(_, _, _, _)
InnerLoop(t, y, x, ixa) ==
  IF ixa >= average THEN 0
  ELSE fld[<< t, Index(y + ixa, ny), Index(x + ixa, nx) >>]
       + InnerLoop(t, y, x, ixa + 1)

\* for iya in range(0, average): <inner loop>
RECURSIVE OuterLoop(_, _, _, _)
OuterLoop(t, y, x, iya) ==
  IF iya >= average THEN 0
  ELSE InnerLoop(t, y, x, 0) + OuterLoop(t, y, x, iya + 1)

\* Numerator of `value` for the block at (y, x) of tile t.
BlockValue(t, y, x) == OuterLoop(t, y, x, 0)

\* Variant of Visible: a value equal to the threshold is dropped.
VisibleStrict(num) == Abs(num) > threshold * normavgDen

\* abs(value) >= threshold
Visible(num) == Abs(num) >= threshold * normavgDen

\* The vertex arrays have nx+1 entries a side; the four corners are read.
CornersRaise(y, x) ==
  \/ Index(y + average, nx + 1) = -1
  \/ Index(x + average, nx + 1) = -1

Corners(y, x) ==
  << << y, x >>, << y, x + average >>,
     << y + average, x + average >>, << y + average, x >> >>

\* One pass of the body of the three nested loops, and the loop headers
\* that follow it.
PolygonBlock ==
  /\ pc = "polygons"
  /\ IF BlockRaises(iy, ix)
       THEN /\ Abort("IndexError")
            /\ UNCHANGED << loop, value, values, patches >>
       ELSE LET num == BlockValue(itile, iy, ix)
            IN /\ value' = num
               /\ values' = Append(values,
                     [tile |-> itile, iy |-> iy, ix |-> ix, value |-> num])
               /\ IF Visible(num) /\ CornersRaise(iy, ix)
                    THEN /\ Abort("IndexError")
                         /\ UNCHANGED << loop, patches >>
                    ELSE /\ patches' =
                              IF Visible(num)
                                THEN Append(patches,
                                       [tile |-> itile, xy |-> Corners(iy, ix),
                                        value |-> num])
                                ELSE patches
                         /\ error' = error
                         /\ IF ix + average < nx
                              THEN /\ ix' = ix + average
                                   /\ UNCHANGED << iy, itile, pc >>
                              ELSE IF iy + average < ny
                                THEN /\ ix' = 0
                                     /\ iy' = iy + average
                                     /\ UNCHANGED << itile, pc >>
                                ELSE IF itile + 1 < ntile
                                  THEN /\ ix' = 0
                                       /\ iy' = 0
                                       /\ itile' = itile + 1
                                       /\ pc' = pc
                                  ELSE /\ pc' = "save"
                                       /\ UNCHANGED loop
  /\ UNCHANGED << args, inputs, field, range, fld_cross, saved >>

\* ------------------------------------------------------------------ save
\* Colorbar, savefig, trim, and the "plot produced" message.
Save ==
  /\ pc = "save"
  /\ saved' = TRUE
  /\ pc' = "done"
  /\ UNCHANGED << args, inputs, field, error, range, loop, fld_cross, value,
                  values, patches >>

Next ==
  \/ CheckArgs
  \/ ReadGEOS
  \/ BaseGEOS
  \/ ShapeGEOS
  \/ CheckExtGFS
  \/ ReadTileGFS
  \/ CheckBaseExtGFS
  \/ SubTileGFS
  \/ OpenGrid
  \/ ComputeRange
  \/ InitFigure
  \/ Cross
  \/ PolygonBlock
  \/ Save

Spec == Init /\ [][Next]_vars

\* ======================================================== claims: helpers
Assembled == pc \in {"grid", "range", "figure", "cross", "polygons", "save", "done"}

RangeKnown == pc \in {"figure", "cross", "polygons", "save", "done"}

Divides == ny > 0 /\ ny % average = 0 /\ nx % average = 0

NonDividing == ny > 0 /\ (ny % average # 0 \/ nx % average # 0)

FieldValues == { fld[c] : c \in DOMAIN fld }

IsMaxOf(m, S) == m \in S /\ \A v \in S : v <= m

IsMinOf(m, S) == m \in S /\ \A v \in S : m <= v

VisibleBlocks ==
  { k \in 1..Len(values) : Abs(values[k].value) >= threshold * average * average }

\* ==================================================================== C1
\* C1: in the polygon path with average dividing the edge length, every
\* block value is the mean of all average*average cells of its block: its
\* numerator over average^2 is the sum of the block's cells.
C1_BlockMean ==
  (~cross /\ Divides) =>
    \A k \in 1..Len(values) :
      values[k].value =
        SumOver(fld, BlockCells(values[k].tile, values[k].iy, values[k].ix))

\* ==================================================================== C2
\* C2: a block with |value| < threshold adds no polygon, a block with
\* |value| >= threshold adds exactly one, so the number of polygons is the
\* number of blocks computed so far with |value| >= threshold: the blocks
\* are visited once each, in increasing (tile, iy, ix) order, and the
\* polygons are exactly the visited blocks with |value| >= threshold.
C2_Emission ==
  ~cross =>
    LET vis == SelectSeq(values,
                 LAMBDA v : Abs(v.value) >= threshold * average * average)
    IN /\ Len(patches) = Len(vis)
       /\ \A q \in 1..Len(vis) :
            /\ patches[q].tile = vis[q].tile
            /\ patches[q].xy[1] = << vis[q].iy, vis[q].ix >>
            /\ patches[q].value = vis[q].value
       /\ \A k \in 1..(Len(values) - 1) :
            \/ values[k].tile < values[k + 1].tile
            \/ /\ values[k].tile = values[k + 1].tile
               /\ values[k].iy < values[k + 1].iy
            \/ /\ values[k].tile = values[k + 1].tile
               /\ values[k].iy = values[k + 1].iy
               /\ values[k].ix < values[k + 1].ix

C2_Witness ==
  /\ pc = "done" /\ ~cross /\ Divides /\ threshold > 0
  /\ VisibleBlocks # {}
  /\ VisibleBlocks # 1..Len(values)
  /\ \E k \in VisibleBlocks : Abs(values[k].value) = threshold * average * average

\* ==================================================================== C3
InBlock(p, r0, c0, n) ==
  p[1] \in r0..(r0 + n - 1) /\ p[2] \in c0..(c0 + n - 1)

\* C3: the cross atlas of n x n tiles has shape (3n, 4n); tiles 0, 1, 5 are
\* copied unrotated, tile 2 is rotated 270 degrees, tiles 3 and 4 are
\* rotated 90 degrees, and every other cell is the no-data sentinel.
C3_CrossLayout ==
  (cross /\ pc \in {"save", "done"} /\ nx = ny) =>
    LET n == nx IN
    /\ DOMAIN fld_cross = (0..(3 * n - 1)) \X (0..(4 * n - 1))
    /\ \A p \in DOMAIN fld_cross :
         LET r == p[1]
             c == p[2]
         IN fld_cross[p] =
              IF InBlock(p, n, n, n) THEN fld[<< 0, r - n, c - n >>]
              ELSE IF InBlock(p, n, 2 * n, n) THEN fld[<< 1, r - n, c - 2 * n >>]
              ELSE IF InBlock(p, 0, n, n) THEN fld[<< 5, r, c - n >>]
              ELSE IF InBlock(p, 2 * n, n, n)
                THEN fld[<< 2, n - 1 - (c - n), r - 2 * n >>]
              ELSE IF InBlock(p, n, 3 * n, n)
                THEN fld[<< 3, c - 3 * n, n - 1 - (r - n) >>]
              ELSE IF InBlock(p, n, 0, n)
                THEN fld[<< 4, c, n - 1 - (r - n) >>]
              ELSE Inf

C3_Witness ==
  /\ cross /\ pc = "done" /\ nx = 3 /\ ny = 3
  /\ fld_cross[<< 6, 3 >>] = fld[<< 2, 2, 0 >>]
  /\ fld[<< 2, 2, 0 >>] # fld[<< 2, 0, 0 >>]
  /\ fld[<< 3, 0, 2 >>] # fld[<< 3, 0, 0 >>]
  /\ fld_cross[<< 0, 0 >>] = Inf

\* ==================================================================== C4
Tile2Is1234 ==
  /\ cross /\ pc \in {"save", "done"} /\ nx = 2 /\ ny = 2
  /\ fld[<< 2, 0, 0 >>] = 1 /\ fld[<< 2, 0, 1 >>] = 2
  /\ fld[<< 2, 1, 0 >>] = 3 /\ fld[<< 2, 1, 1 >>] = 4

\* C4 as stated: tile 2 = [[1,2],[3,4]] lands as [[2,4],[1,3]].
C4_Original ==
  Tile2Is1234 =>
    /\ fld_cross[<< 4, 2 >>] = 2 /\ fld_cross[<< 4, 3 >>] = 4
    /\ fld_cross[<< 5, 2 >>] = 1 /\ fld_cross[<< 5, 3 >>] = 3

\* C4 (amended): with nx = ny = 2 and tile 2 = [[1,2],[3,4]], atlas rows
\* 4..5, columns 2..3 hold [[3,1],[4,2]].
C4_Amended ==
  Tile2Is1234 =>
    /\ fld_cross[<< 4, 2 >>] = 3 /\ fld_cross[<< 4, 3 >>] = 1
    /\ fld_cross[<< 5, 2 >>] = 4 /\ fld_cross[<< 5, 3 >>] = 2

C4_Witness == Tile2Is1234 /\ pc = "done"

\* ==================================================================== C5
\* C5: with a base file of the same shape as the data file, the assembled
\* field is data - base in every cell, in the GEOS and in the GFS layout.
C5_Difference ==
  (Assembled /\ basefilepath # "none" /\ primaryN = baselineN) =>
    /\ ny = primaryN /\ nx = primaryN
    /\ fld = [c \in Cells(primaryN, primaryN) |-> primary[c] - baseline[c]]

C5_Witness ==
  /\ Assembled /\ ~geos /\ gfs /\ basefilepath = "nc"
  /\ primaryN = 2 /\ baselineN = 2
  /\ \E c \in DOMAIN fld : baseline[c] # 0 /\ fld[c] = primary[c] - baseline[c]
  /\ \E c \in DOMAIN fld, d \in DOMAIN fld : c[1] # d[1] /\ baseline[c] # baseline[d]

\* ==================================================================== C6
\* C6: the range is (-m, m) with m the largest |cell| when centered, and
\* (smallest cell, largest cell) otherwise; on the values -3, 5, -1 it is
\* (-5, 5) when centered and (-3, 5) when not.
C6_Range ==
  RangeKnown =>
    /\ centered =>
         /\ IsMaxOf(vmax, { Abs(v) : v \in FieldValues })
         /\ vmin = -vmax
    /\ ~centered =>
         /\ IsMinOf(vmin, FieldValues)
         /\ IsMaxOf(vmax, FieldValues)
    /\ FieldValues = {-3, 5, -1} =>
         << vmin, vmax >> = IF centered THEN << -5, 5 >> ELSE << -3, 5 >>

C6_Witness ==
  /\ pc = "figure" /\ centered
  /\ FieldValues = {-3, 5, -1}
  /\ vmin = -5 /\ vmax = 5

\* ==================================================================== C7
\* C7 as stated: with average > 1 not dividing the edge length the polygon
\* path raises no error.
C7_Original ==
  (~cross /\ average > 1 /\ NonDividing) => error # "IndexError"

\* C7 (amended): with average > 1 not dividing the edge length, the polygon
\* loop raises IndexError at the edge block of the first block row of tile
\* 0, after the nx div average full blocks of that row; the run never
\* reaches savefig, and IndexError is raised in no other run.
C7_Amended ==
  /\ (~cross /\ NonDividing) => (pc \notin {"save", "done"} /\ ~saved)
  /\ (~cross /\ NonDividing /\ (pc = "polygons" \/ error = "IndexError")) =>
       /\ itile = 0 /\ iy = 0
       /\ Len(values) <= nx \div average
       /\ \A k \in 1..Len(values) :
            BlockCells(values[k].tile, values[k].iy, values[k].ix)
              \subseteq DOMAIN fld
  /\ error = "IndexError" =>
       /\ ~cross /\ NonDividing /\ average > 1
       /\ Len(values) = nx \div average

C7_Witness ==
  /\ error = "IndexError" /\ pc = "aborted"
  /\ average = 2 /\ nx = 3
  /\ Len(values) = 1

\* ==================================================================== C8
\* C8: a run that detects an error stops there: the step that detects it
\* ends the run, no step follows it, and the image is written only in runs
\* without an error.
C8_AbortImmediately ==
  [][ /\ error = "none"
      /\ error' # "none" => (pc' = "aborted" /\ ~saved')
      /\ saved' => error' = "none" ]_vars

C8_Witness ==
  /\ pc = "aborted" /\ error = "ValueError" /\ ~saved
  /\ fld # NoField

\* ==================================================================== C9
\* The block values the loop has computed, as a set of numerators.
BlockValues == { values[k].value : k \in 1..Len(values) }

\* C9 as stated: for average > 1 the range is the range of the averaged
\* values.
C9_Original ==
  (~cross /\ average > 1 /\ Divides /\ pc \in {"save", "done"}) =>
    IF centered
      THEN /\ IsMaxOf(vmax * average * average, { Abs(v) : v \in BlockValues })
           /\ vmin = -vmax
      ELSE /\ IsMinOf(vmin * average * average, BlockValues)
           /\ IsMaxOf(vmax * average * average, BlockValues)

\* C9 (amended): the range is computed from the assembled, un-averaged
\* field before any block is averaged, and the averaging loop leaves it
\* alone: for average > 1, at every point of the polygon loop and after it,
\* vmin and vmax are the min/max (or -m, m with m = max|.|) over the cells
\* of the un-averaged field.
C9_Amended ==
  (~cross /\ average > 1 /\ pc \in {"polygons", "save", "done"}) =>
    IF centered
      THEN /\ IsMaxOf(vmax, { Abs(fld[c]) : c \in DOMAIN fld })
           /\ vmin = -vmax
      ELSE /\ IsMinOf(vmin, { fld[c] : c \in DOMAIN fld })
           /\ IsMaxOf(vmax, { fld[c] : c \in DOMAIN fld })

C9_Witness ==
  /\ ~cross /\ average = 2 /\ Divides /\ pc = "done" /\ ~centered
  /\ \A v \in BlockValues : vmin * average * average < v
  /\ \A v \in BlockValues : v < vmax * average * average

\* =================================================================== C10
\* C10: with average dividing the edge length, every block value lies in
\* [vmin, vmax], the range taken from the un-averaged field.
C10_WithinRange ==
  (~cross /\ Divides /\ pc \in {"polygons", "save", "done"}) =>
    \A k \in 1..Len(values) :
      /\ vmin * normavgDen <= values[k].value
      /\ values[k].value <= vmax * normavgDen

C10_Witness ==
  /\ ~cross /\ Divides /\ pc = "done" /\ average = 2 /\ centered
  /\ Len(patches) > 0
  /\ \E k \in 1..Len(values) : values[k].value < 0
  /\ \E k \in 1..Len(values) : values[k].value > 0
====
